---- MODULE Spec2Model ----
(***************************************************************************)
(* PRISM backend: the per-connection audio session of                      *)
(* backend/app/routers/websocket.py (AudioSessionHandler and the           *)
(* audio_websocket message loop).                                          *)
(*                                                                         *)
(* Coroutine 0 is the inbound message loop; the other coroutines are the   *)
(* scheduler tasks made by start_recording.  A coroutine runs without      *)
(* interruption between two awaits; every action below is one such run.    *)
(* Text is a sequence of lower-case word tokens, time is whole seconds.    *)
(***************************************************************************)
EXTENDS Integers, Sequences, FiniteSets, TLC

\* ------------------------------------------------------------- bounds
MaxTime == 7        \* the clock stops here
MaxLen == 8         \* longest armed buffer, in words
MaxChunks == 3      \* audio chunks received over the connection
MaxStarts == 1      \* start_recording messages in Spec; SpecRestart has one more
MaxStops == 2       \* stop_recording messages in a row

\* ------------------------------------------------------------- constants
svg_generation_interval == 5
deactivation_cooldown == 6
NoSvg == 0

Tasks == 1..(MaxStarts + 1)
Coroutines == {0} \cup Tasks

\* ------------------------------------------------------------- words
ACTIVATE_WORDS == {"prism", "prison"}

\* the transcriptions the speech-to-text engine may return for a chunk
Chunks ==
  { <<"a">>, <<"histogram">>, <<"prism", "a">>, <<"thank", "you">>,
    <<"you">>, <<"a", "a", "a">>, <<"prism", "a", "prism">> }

\* "needle in word" for the words of the model
InWord(needle, word) ==
  \/ needle = word
  \/ needle = "prism" /\ word = "prisms"
  \/ needle = "prison" /\ word = "prisoner"
  \/ needle = "thanks" /\ word = "thanksgiving"

\* re.sub(r'\bprison\b', 'prism', text)
ReplacePrison(text) ==
  [i \in DOMAIN text |-> IF text[i] = "prison" THEN "prism" ELSE text[i]]

\* lower_text_check in ["thank you", "thankyou", "thanks"]
IsDeactivationPhrase(text) ==
  text \in { <<"thank", "you">>, <<"thankyou">>, <<"thanks">> }

\* lower_text_check in hallucinations
IsHallucination(text) ==
  text \in { <<"you">>, <<"thanks", "for", "watching">>, <<"subscribe">>,
             <<"bye">>, <<"goodbye">>, <<"the", "end">>,
             <<"thanks", "for", "listening">>, <<"see", "you">>, <<"okay">>,
             <<"thank", "you", "for", "watching">> }

\* len(words) > 2 and len(set(words)) == 1
IsRepeatedWord(text) ==
  Len(text) > 2 /\ Cardinality({text[i] : i \in DOMAIN text}) = 1

\* any(pattern in lower_text for pattern in deactivate_patterns)
ContainsDeactivate(text) ==
  \/ \E i \in 1..(Len(text) - 1) : text[i] = "thank" /\ text[i + 1] = "you"
  \/ \E i \in DOMAIN text : InWord("thankyou", text[i]) \/ InWord("thanks", text[i])

\* any(activate_word in lower_text for activate_word in ACTIVATE_WORDS)
ContainsActivate(text) ==
  \E i \in DOMAIN text : \E w \in ACTIVATE_WORDS : InWord(w, text[i])

\* re.split(r'\bprism\b', lower_text): parts[1].strip() if len(parts) > 1
TrailingText(text) ==
  LET hits == {i \in DOMAIN text : text[i] = "prism"}
  IN IF hits = {} THEN <<>>
     ELSE LET first == CHOOSE i \in hits : \A j \in hits : i <= j
              later == {j \in hits : j > first}
              stop == IF later = {} THEN Len(text) + 1
                      ELSE CHOOSE j \in later : \A k \in later : j <= k
          IN SubSeq(text, first + 1, stop - 1)

\* current_text[self.last_text_length:]
TextFrom(text, n) ==
  IF n >= Len(text) THEN <<>> ELSE SubSeq(text, n + 1, Len(text))

\* ------------------------------------------------------------- classifier
CHART_KEYWORDS_PRIMARY == {"histogram"}
CHART_KEYWORDS_SECONDARY ==
  {"chart", "graph", "sales", "revenue", "quarterly"}
DATA_INDICATOR_WORDS == {"data", "total", "average"}
NumberWords == {"10", "20", "30", "40"}

Matches(keywords, text) ==
  Cardinality({k \in keywords : \E i \in DOMAIN text : text[i] = k})

NumberCount(text) ==
  Cardinality({i \in DOMAIN text : text[i] \in NumberWords})

\* is_chart_request that takes numeric literals for data indicator words
is_chart_request_numbers_as_data(text) ==
  IF Matches(CHART_KEYWORDS_PRIMARY, text) > 0 THEN <<TRUE, 95>>
  ELSE IF Matches(CHART_KEYWORDS_SECONDARY, text) >= 1
          /\ Matches(DATA_INDICATOR_WORDS, text) + NumberCount(text) >= 1
       THEN <<TRUE, 85>>
  ELSE IF Matches(CHART_KEYWORDS_SECONDARY, text) >= 2 THEN <<TRUE, 75>>
  ELSE IF NumberCount(text) >= 4 THEN <<TRUE, 65>>
  ELSE <<FALSE, 0>>

\* is_chart_request that tests "multiple secondary" before "secondary + data"
is_chart_request_keywords_first(text) ==
  IF Matches(CHART_KEYWORDS_PRIMARY, text) > 0 THEN <<TRUE, 95>>
  ELSE IF Matches(CHART_KEYWORDS_SECONDARY, text) >= 2 THEN <<TRUE, 75>>
  ELSE IF Matches(CHART_KEYWORDS_SECONDARY, text) >= 1
          /\ Matches(DATA_INDICATOR_WORDS, text) >= 1 THEN <<TRUE, 85>>
  ELSE IF NumberCount(text) >= 2
          /\ Matches(CHART_KEYWORDS_SECONDARY, text) >= 1 THEN <<TRUE, 70>>
  ELSE IF NumberCount(text) >= 4 THEN <<TRUE, 65>>
  ELSE <<FALSE, 0>>

\* (is_chart, confidence in hundredths)
is_chart_request(text) ==
  IF Matches(CHART_KEYWORDS_PRIMARY, text) > 0 THEN <<TRUE, 95>>
  ELSE IF Matches(CHART_KEYWORDS_SECONDARY, text) >= 1
          /\ Matches(DATA_INDICATOR_WORDS, text) >= 1 THEN <<TRUE, 85>>
  ELSE IF Matches(CHART_KEYWORDS_SECONDARY, text) >= 2 THEN <<TRUE, 75>>
  ELSE IF NumberCount(text) >= 2
          /\ Matches(CHART_KEYWORDS_SECONDARY, text) >= 1 THEN <<TRUE, 70>>
  ELSE IF NumberCount(text) >= 4 THEN <<TRUE, 65>>
  ELSE <<FALSE, 0>>

\* ------------------------------------------------------------- state
VARIABLES
  now,                            \* time.time(), whole seconds
  is_recording, is_connected,
  visualization_active,           \* armed
  visualization_text,             \* armed buffer
  accumulated_text,               \* every chunk transcribed and kept
  last_svg_text, last_svg_context, last_svg_code, last_text_length,
  last_chart_text,
  previous_session_svg_text, previous_session_svg_code,
  previous_session_svg_context,
  is_first_generation_of_session,
  session_visualization_type,     \* "none" | "chart" | "svg"
  last_svg_generation_time,
  processing_task,                \* 0 = None, else the task's number
  main,                           \* the message loop: where it is suspended
  task,                           \* scheduler tasks
  gen,                            \* per coroutine: its generation call in flight
  sent,                           \* events handed to the transport by the last step
  emitted,                        \* per arm cycle: has an artifact of it been sent
  cycle,                          \* number of activations so far (arm cycle)
  nextSvg,                        \* next markup the content engine returns
  armed_at,                       \* when the current arm cycle was armed
  covered,                        \* words of the armed buffer that the last
                                  \* completed generation of the current arm
                                  \* cycle was given, 0 when there is none
  last_dispatch,                  \* when a content engine was last called,
                                  \* or the session armed, whichever is later
  nChunks, nStarts,
  nStops,                         \* stop_recording messages since the last
                                  \* other message
  finals                          \* calls of the generation routine made by
                                  \* those stop_recording messages

flags == <<is_recording, is_connected, visualization_active>>
track == <<last_svg_text, last_svg_context, last_svg_code, last_text_length,
           last_chart_text>>
prev == <<previous_session_svg_text, previous_session_svg_code,
          previous_session_svg_context>>
procs == <<main, task, gen, processing_task>>
lock == <<is_first_generation_of_session, session_visualization_type>>
ghost == <<armed_at, last_dispatch, covered>>
count == <<nChunks, nStarts, nStops, finals>>
vars == <<now, flags, visualization_text, accumulated_text, track, prev, lock,
          last_svg_generation_time, procs, sent, emitted, cycle, nextSvg,
          ghost, count>>

NoGen ==
  [pc |-> "none", current_text |-> <<>>, mode |-> "none", prev_svg |-> NoSvg,
   cyc |-> 0]
NoTask == [pc |-> "none", slept |-> FALSE, current_time |-> 0]
Idle == [pc |-> "idle", text |-> <<>>, text_to_add |-> <<>>]
At(pc) == [Idle EXCEPT !.pc = pc]

Init ==
  /\ now = 0
  /\ is_recording = FALSE
  /\ is_connected = TRUE
  /\ visualization_active = FALSE
  /\ visualization_text = <<>>
  /\ accumulated_text = <<>>
  /\ last_svg_text = <<>>
  /\ last_svg_context = <<>>
  /\ last_svg_code = NoSvg
  /\ last_text_length = 0
  /\ last_chart_text = <<>>
  /\ previous_session_svg_text = <<>>
  /\ previous_session_svg_code = NoSvg
  /\ previous_session_svg_context = <<>>
  /\ is_first_generation_of_session = TRUE
  /\ session_visualization_type = "none"
  /\ last_svg_generation_time = 0
  /\ processing_task = 0
  /\ main = Idle
  /\ task = [t \in Tasks |-> NoTask]
  /\ gen = [c \in Coroutines |-> NoGen]
  /\ sent = <<>>
  /\ emitted = <<>>
  /\ cycle = 0
  /\ nextSvg = 1
  /\ armed_at = 0
  /\ covered = 0
  /\ last_dispatch = 0
  /\ nChunks = 0
  /\ nStarts = 0
  /\ nStops = 0
  /\ finals = 0

\* ------------------------------------------------------------- events
SvgGeneratedKeys ==
  {"svg", "description", "original_text", "new_text_delta", "generation_mode",
   "similarity_score", "similarity_threshold"}
ErrorSvgKeys == {"svg", "error"}
StatusKeys == {"status", "visualization_active"}
PartialKeys ==
  {"text", "accumulated_text", "visualization_text", "visualization_active",
   "is_final"}

\* SvgEvent with a session_id entry in its data
SvgEventWithSession(g) ==
  [type |-> "svg_generated", tag |-> g.mode,
   keys |-> SvgGeneratedKeys \cup {"session_id"},
   armed |-> FALSE, cyc |-> g.cyc, prev_svg |-> g.prev_svg]

\* the svg_generated event of a successful image generation: tag is its
\* generation_mode, keys are the entries of its data; cyc is the arm cycle
\* that dispatched the generation and prev_svg the markup its request was given
SvgEvent(g) ==
  [type |-> "svg_generated", tag |-> g.mode, keys |-> SvgGeneratedKeys,
   armed |-> FALSE, cyc |-> g.cyc, prev_svg |-> g.prev_svg]

\* an error message in place of the placeholder artifact
ErrorEvent(g) ==
  [type |-> "error", tag |-> "none", keys |-> {"error"},
   armed |-> FALSE, cyc |-> g.cyc, prev_svg |-> g.prev_svg]

\* the placeholder event built around create_error_svg
ErrorSvgEvent(g) ==
  [type |-> "svg_generated", tag |-> "none", keys |-> ErrorSvgKeys,
   armed |-> FALSE, cyc |-> g.cyc, prev_svg |-> g.prev_svg]

\* the error event answering a payload that json.loads rejects
ErrorMessageEvent ==
  [type |-> "error", tag |-> "invalid json message", keys |-> {"error"},
   armed |-> FALSE, cyc |-> 0, prev_svg |-> NoSvg]

\* a status event: tag is its status, armed its visualization_active
StatusEvent(status, active) ==
  [type |-> "status", tag |-> status, keys |-> StatusKeys, armed |-> active,
   cyc |-> 0, prev_svg |-> NoSvg]

\* the transcription_partial event closing _transcribe_audio
PartialEvent(active) ==
  [type |-> "transcription_partial", tag |-> "none", keys |-> PartialKeys,
   armed |-> active, cyc |-> 0, prev_svg |-> NoSvg]

\* send_message_safe that also drops an artifact once the session is disarmed
send_if_armed(ev) ==
  IF is_connected /\ (ev.type = "svg_generated" => visualization_active)
  THEN <<ev>> ELSE <<>>

\* send_message_safe without the is_connected test
send_always(ev) == <<ev>>

\* send_message_safe: a silent no-op once disconnected
send_message_safe(ev) == IF is_connected THEN <<ev>> ELSE <<>>

\* emitted once the artifact event ev of a generation has been sent
Emitting(ev) ==
  IF is_connected /\ ev.cyc \in DOMAIN emitted
  THEN [emitted EXCEPT ![ev.cyc] = TRUE]
  ELSE emitted

\* ------------------------------------------------------------- generation
\* SvgEntry that tags a within-cycle enhancement "initial"
SvgEntryAlwaysInitial(cur, cyc) ==
  IF is_first_generation_of_session
  THEN IF previous_session_svg_code # NoSvg
       THEN [pc |-> "sim", current_text |-> cur, mode |-> "none",
             prev_svg |-> NoSvg, cyc |-> cyc]
       ELSE [pc |-> "llm", current_text |-> cur, mode |-> "initial",
             prev_svg |-> NoSvg, cyc |-> cyc]
  ELSE [pc |-> "llm", current_text |-> cur, mode |-> "initial",
        prev_svg |-> last_svg_code, cyc |-> cyc]

\* SvgEntry that enhances the previous cycle's markup within a cycle
SvgEntryPreviousSession(cur, cyc) ==
  IF is_first_generation_of_session
  THEN IF previous_session_svg_code # NoSvg
       THEN [pc |-> "sim", current_text |-> cur, mode |-> "none",
             prev_svg |-> NoSvg, cyc |-> cyc]
       ELSE [pc |-> "llm", current_text |-> cur, mode |-> "initial",
             prev_svg |-> NoSvg, cyc |-> cyc]
  ELSE IF last_svg_code # NoSvg
       THEN [pc |-> "llm", current_text |-> cur, mode |-> "enhanced",
             prev_svg |-> previous_session_svg_code, cyc |-> cyc]
       ELSE [pc |-> "llm", current_text |-> cur, mode |-> "initial",
             prev_svg |-> NoSvg, cyc |-> cyc]

\* _generate_and_send_svg up to its first await, for the text cur
SvgEntry(cur, cyc) ==
  IF is_first_generation_of_session
  THEN IF previous_session_svg_code # NoSvg
       THEN [pc |-> "sim", current_text |-> cur, mode |-> "none",
             prev_svg |-> NoSvg, cyc |-> cyc]
       ELSE [pc |-> "llm", current_text |-> cur, mode |-> "initial",
             prev_svg |-> NoSvg, cyc |-> cyc]
  ELSE IF last_svg_code # NoSvg
       THEN [pc |-> "llm", current_text |-> cur, mode |-> "enhanced",
             prev_svg |-> last_svg_code, cyc |-> cyc]
       ELSE [pc |-> "llm", current_text |-> cur, mode |-> "initial",
             prev_svg |-> NoSvg, cyc |-> cyc]

\* _generate_and_send_chart up to its await of generate_chart
ChartEntry(cur, cyc) ==
  [pc |-> "chart", current_text |-> cur,
   mode |-> IF last_chart_text # <<>> THEN "enhanced" ELSE "chart",
   prev_svg |-> NoSvg, cyc |-> cyc]

\* LockedType that classifies the text again at every generation
LockedTypeRecomputed(cur) ==
  IF is_chart_request(cur)[1] THEN "chart" ELSE "svg"

\* session_visualization_type after the type decision for the text cur
LockedType(cur) ==
  IF session_visualization_type = "none"
  THEN IF is_chart_request(cur)[1] THEN "chart" ELSE "svg"
  ELSE session_visualization_type

\* _generate_and_send_visualization up to its first await: skip tells that it
\* returned without calling a content engine
Dispatch ==
  LET cur == visualization_text
      delta == TextFrom(cur, last_text_length)
      none == [skip |-> TRUE, type |-> session_visualization_type,
               first |-> is_first_generation_of_session, g |-> NoGen]
  IN IF ~visualization_active THEN none
     ELSE IF cur = <<>> \/ ~is_connected THEN none
     ELSE IF delta = <<>> /\ last_svg_text # <<>> THEN none
     ELSE IF LockedType(cur) = "chart"
          THEN [skip |-> FALSE, type |-> "chart",
                first |-> is_first_generation_of_session,
                g |-> ChartEntry(cur, cycle)]
          ELSE [skip |-> FALSE, type |-> "svg", first |-> FALSE,
                g |-> SvgEntry(cur, cycle)]

\* SimReturn that enhances whatever the similarity check answered
SimReturnAlwaysEnhance(c, is_similar) ==
  /\ gen[c].pc = "sim"
  /\ gen' = [gen EXCEPT ![c] =
       [@ EXCEPT !.pc = "llm", !.mode = "new_topic",
                 !.prev_svg = previous_session_svg_code]]
  /\ sent' = <<>>
  /\ UNCHANGED <<now, flags, visualization_text, accumulated_text, track, prev, lock,
                 last_svg_generation_time, main, task, processing_task,
                 emitted, cycle, nextSvg, ghost, count>>

\* check_topic_similarity returned
SimReturn(c, is_similar) ==
  /\ gen[c].pc = "sim"
  /\ gen' = [gen EXCEPT ![c] =
       [@ EXCEPT !.pc = "llm",
                 !.mode = IF is_similar THEN "enhanced" ELSE "new_topic",
                 !.prev_svg = IF is_similar THEN previous_session_svg_code
                              ELSE NoSvg]]
  /\ sent' = <<>>
  /\ UNCHANGED <<now, flags, visualization_text, accumulated_text, track, prev, lock,
                 last_svg_generation_time, main, task, processing_task,
                 emitted, cycle, nextSvg, ghost, count>>

\* generate_svg / generate_enhanced_svg returned: tracking update,
\* process_svg and wrap_svg_for_animation (processed tells whether they
\* succeeded), then the event
LlmReturn(c, processed) ==
  /\ gen[c].pc = "llm"
  /\ last_svg_context' = gen[c].current_text
  /\ last_svg_text' = gen[c].current_text
  /\ last_text_length' = Len(gen[c].current_text)
  /\ last_svg_code' = nextSvg
  /\ nextSvg' = nextSvg + 1
  /\ LET ev == IF processed THEN SvgEvent(gen[c]) ELSE ErrorSvgEvent(gen[c])
     IN /\ sent' = send_message_safe(ev)
        /\ emitted' = Emitting(ev)
  /\ gen' = [gen EXCEPT ![c] = [NoGen EXCEPT !.pc = "sent"]]
  /\ covered' = IF gen[c].cyc = cycle THEN Len(gen[c].current_text)
                ELSE covered
  /\ UNCHANGED <<now, flags, visualization_text, accumulated_text, last_chart_text, prev, lock,
                 last_svg_generation_time, main, task, processing_task,
                 cycle, armed_at, last_dispatch, count>>

\* generate_chart gives up once the fallback code has failed as well
retry_never(g) == TRUE

\* generate_chart: the execution that failed was the retry with the code of
\* _create_fallback_code
retry_exhausted(g) == g.pc = "chart_retry"

\* execute_chart_code returned inside generate_chart, ok telling whether it
\* made an image.  A first failure is retried with the fallback code; when
\* the retry fails too generate_chart returns an error and the image pathway
\* takes over; on success the tracking update, and
\* MessageType.CHART_GENERATED, which MessageType does not define, raises
\* into the handler of _generate_and_send_visualization, which sends the
\* error svg
ChartReturn(c, ok) ==
  /\ gen[c].pc \in {"chart", "chart_retry"}
  /\ IF ok
     THEN /\ last_chart_text' = gen[c].current_text
          /\ last_svg_text' = gen[c].current_text
          /\ last_text_length' = Len(gen[c].current_text)
          /\ last_svg_context' = gen[c].current_text
          /\ sent' = send_message_safe(ErrorSvgEvent(gen[c]))
          /\ emitted' = Emitting(ErrorSvgEvent(gen[c]))
          /\ gen' = [gen EXCEPT ![c] = [NoGen EXCEPT !.pc = "sent"]]
          /\ covered' = IF gen[c].cyc = cycle THEN Len(gen[c].current_text)
                        ELSE covered
          /\ UNCHANGED <<last_svg_code, is_first_generation_of_session>>
     ELSE IF retry_exhausted(gen[c])
     THEN /\ gen' = [gen EXCEPT ![c] = SvgEntry(@.current_text, @.cyc)]
          /\ is_first_generation_of_session' = FALSE
          /\ sent' = <<>>
          /\ UNCHANGED <<track, emitted, covered>>
     ELSE /\ gen' = [gen EXCEPT ![c].pc = "chart_retry"]
          /\ sent' = <<>>
          /\ UNCHANGED <<track, emitted, covered,
                         is_first_generation_of_session>>
  /\ UNCHANGED <<now, flags, visualization_text, accumulated_text, prev,
                 session_visualization_type, last_svg_generation_time, main,
                 task, processing_task, cycle, nextSvg, armed_at,
                 last_dispatch, count>>

\* ------------------------------------------------------------- scheduler
Sleeping == [pc |-> "sleep", slept |-> FALSE, current_time |-> 0]
Ended(pc) == [pc |-> pc, slept |-> FALSE, current_time |-> 0]

\* the while test of _periodic_svg_generation, then asyncio.sleep(1)
LoopTest == IF is_recording /\ is_connected THEN Sleeping ELSE Ended("done")

\* the three nested tests of a poll tick
Due ==
  /\ visualization_active
  /\ now - last_svg_generation_time >= svg_generation_interval
  /\ visualization_text # <<>>

\* a poll tick: the sleep is over, the tick body runs up to its first await
Wake(t) ==
  /\ task[t].pc = "sleep"
  /\ task[t].slept
  /\ IF Due /\ ~Dispatch.skip
     THEN /\ gen' = [gen EXCEPT ![t] = Dispatch.g]
          /\ task' = [task EXCEPT ![t] =
               [pc |-> "gen", slept |-> FALSE, current_time |-> now]]
          /\ session_visualization_type' = Dispatch.type
          /\ is_first_generation_of_session' = Dispatch.first
          /\ UNCHANGED last_svg_generation_time
     ELSE /\ last_svg_generation_time' =
               IF Due THEN now ELSE last_svg_generation_time
          /\ task' = [task EXCEPT ![t] = LoopTest]
          /\ UNCHANGED <<gen, lock>>
  /\ last_dispatch' = IF Due /\ ~Dispatch.skip THEN now ELSE last_dispatch
  /\ sent' = <<>>
  /\ UNCHANGED <<now, flags, visualization_text, accumulated_text, track, prev, main,
                 processing_task, emitted, cycle, nextSvg, armed_at, covered,
                 count>>

\* SchedulerSendReturn that stamps the time of the return
SchedulerSendReturnNow(t) ==
  /\ gen[t].pc = "sent"
  /\ gen' = [gen EXCEPT ![t] = NoGen]
  /\ last_svg_generation_time' = now
  /\ task' = [task EXCEPT ![t] = LoopTest]
  /\ sent' = <<>>
  /\ UNCHANGED <<now, flags, visualization_text, accumulated_text, track,
                 prev, lock, main, processing_task, emitted, cycle, nextSvg,
                 ghost, count>>

\* the event is sent and the generation call returns to the scheduler tick
\* that made it: last_svg_generation_time = current_time, then the while test
SchedulerSendReturn(t) ==
  /\ gen[t].pc = "sent"
  /\ gen' = [gen EXCEPT ![t] = NoGen]
  /\ last_svg_generation_time' = task[t].current_time
  /\ task' = [task EXCEPT ![t] = LoopTest]
  /\ sent' = <<>>
  /\ UNCHANGED <<now, flags, visualization_text, accumulated_text, track, prev, lock, main,
                 processing_task, emitted, cycle, nextSvg, ghost, count>>

\* a cancelled task runs once more: CancelledError reaches the handler of
\* _periodic_svg_generation and the task ends
ObserveCancel(t) ==
  /\ task[t].pc = "cancelled"
  /\ task' = [task EXCEPT ![t].pc = "done"]
  /\ sent' = <<>>
  /\ UNCHANGED <<now, flags, visualization_text, accumulated_text, track, prev, lock,
                 last_svg_generation_time, main, gen, processing_task, emitted,
                 cycle, nextSvg, ghost, count>>

\* a task that has not finished
Pending(t) == t # 0 /\ task[t].pc \in {"sleep", "gen", "cancelled"}

\* processing_task.cancel(): a task that has not finished gets the
\* cancellation at the await it is suspended in
CancelProcessingTask ==
  IF Pending(processing_task)
  THEN /\ task' = [task EXCEPT ![processing_task] = Ended("cancelled")]
       /\ gen' = [gen EXCEPT ![processing_task] = NoGen]
  ELSE UNCHANGED <<task, gen>>

\* time passes, up to limit; a sleeping task whose second is over runs
\* before the next
TickTo(limit) ==
  /\ now < limit
  /\ \A t \in Tasks : ~(task[t].pc = "sleep" /\ task[t].slept)
  /\ now' = now + 1
  /\ task' = [t \in Tasks |->
       IF task[t].pc = "sleep" THEN [task[t] EXCEPT !.slept = TRUE]
       ELSE task[t]]
  /\ sent' = <<>>
  /\ UNCHANGED <<flags, visualization_text, accumulated_text, track, prev, lock,
                 last_svg_generation_time, main, gen, processing_task, emitted,
                 cycle, nextSvg, ghost, count>>

Tick == TickTo(MaxTime)

\* ------------------------------------------------------------- message loop
\* a start_recording message; limit bounds how many the model takes
StartRecording(limit) ==
  /\ main.pc = "idle"
  /\ nStarts < limit
  /\ is_recording' = TRUE
  /\ accumulated_text' = <<>>
  /\ visualization_active' = FALSE
  /\ visualization_text' = <<>>
  /\ last_svg_text' = <<>>
  /\ last_svg_context' = <<>>
  /\ last_svg_code' = NoSvg
  /\ last_text_length' = 0
  /\ last_svg_generation_time' = now
  /\ nStarts' = nStarts + 1
  /\ processing_task' = nStarts + 1
  /\ task' = [task EXCEPT ![nStarts + 1] = Sleeping]
  /\ sent' = send_message_safe(StatusEvent("recording_started", FALSE))
  /\ nStops' = 0
  /\ finals' = 0
  /\ covered' = 0
  /\ UNCHANGED <<now, is_connected, last_chart_text, prev, lock, main, gen,
                 emitted, cycle, nextSvg, armed_at, last_dispatch, nChunks>>

\* StopFinal with visualization_active = False ahead of the final generation
StopFinalDisarmFirst ==
  /\ visualization_active' = FALSE
  /\ main' = Idle
  /\ sent' = send_message_safe(StatusEvent("recording_stopped", FALSE))
  /\ UNCHANGED <<gen, lock, last_dispatch, finals>>

\* StopFinal that leaves the flag alone when it has nothing to generate
StopFinalStillArmed ==
  /\ IF visualization_active /\ visualization_text # <<>> /\ ~Dispatch.skip
     THEN /\ gen' = [gen EXCEPT ![0] = Dispatch.g]
          /\ main' = At("gen")
          /\ session_visualization_type' = Dispatch.type
          /\ is_first_generation_of_session' = Dispatch.first
          /\ sent' = <<>>
          /\ UNCHANGED visualization_active
     ELSE /\ main' = Idle
          /\ sent' = send_message_safe(StatusEvent("recording_stopped", FALSE))
          /\ UNCHANGED <<visualization_active, gen, lock>>
  /\ last_dispatch' =
       IF visualization_active /\ visualization_text # <<>> /\ ~Dispatch.skip
       THEN now
       ELSE last_dispatch
  /\ finals' =
       IF visualization_active /\ visualization_text # <<>> THEN finals + 1
       ELSE finals

\* stop_recording from "generate final svg" on
StopFinal ==
  /\ IF visualization_active /\ visualization_text # <<>> /\ ~Dispatch.skip
     THEN /\ gen' = [gen EXCEPT ![0] = Dispatch.g]
          /\ main' = At("gen")
          /\ session_visualization_type' = Dispatch.type
          /\ is_first_generation_of_session' = Dispatch.first
          /\ sent' = <<>>
          /\ UNCHANGED visualization_active
     ELSE /\ visualization_active' = FALSE
          /\ main' = Idle
          /\ sent' = send_message_safe(StatusEvent("recording_stopped", FALSE))
          /\ UNCHANGED <<gen, lock>>
  /\ last_dispatch' =
       IF visualization_active /\ visualization_text # <<>> /\ ~Dispatch.skip
       THEN now
       ELSE last_dispatch
  /\ finals' =
       IF visualization_active /\ visualization_text # <<>> THEN finals + 1
       ELSE finals

\* a stop_recording message, up to await self.processing_task
StopRecording ==
  /\ main.pc = "idle"
  /\ nStops < MaxStops
  /\ nStops' = nStops + 1
  /\ is_recording' = FALSE
  /\ IF Pending(processing_task)
     THEN /\ CancelProcessingTask
          /\ main' = At("stop_await")
          /\ sent' = <<>>
          /\ UNCHANGED <<visualization_active, lock, last_dispatch, finals>>
     ELSE /\ StopFinal
          /\ UNCHANGED task
  /\ UNCHANGED <<now, is_connected, visualization_text, accumulated_text, track, prev,
                 last_svg_generation_time, processing_task, emitted, cycle,
                 nextSvg, armed_at, covered, nChunks, nStarts>>

\* await self.processing_task returns
StopResume ==
  /\ main.pc = "stop_await"
  /\ task[processing_task].pc = "done"
  /\ StopFinal
  /\ UNCHANGED <<now, is_recording, is_connected, visualization_text, accumulated_text, track,
                 prev, last_svg_generation_time, task, processing_task,
                 emitted, cycle, nextSvg, armed_at, covered, nChunks, nStarts,
                 nStops>>

\* StopSendReturn without line 233: the session stays armed
StopSendReturnStillArmed ==
  /\ main.pc = "gen"
  /\ gen[0].pc = "sent"
  /\ gen' = [gen EXCEPT ![0] = NoGen]
  /\ main' = Idle
  /\ sent' = send_message_safe(StatusEvent("recording_stopped", FALSE))
  /\ UNCHANGED <<now, flags, visualization_text, accumulated_text, track, prev, lock,
                 last_svg_generation_time, task, processing_task, emitted,
                 cycle, nextSvg, ghost, count>>

\* the final generation's event is sent: stop_recording goes on to
\* visualization_active = False and the recording_stopped status
StopSendReturn ==
  /\ main.pc = "gen"
  /\ gen[0].pc = "sent"
  /\ gen' = [gen EXCEPT ![0] = NoGen]
  /\ visualization_active' = FALSE
  /\ main' = Idle
  /\ sent' = send_message_safe(StatusEvent("recording_stopped", FALSE))
  /\ UNCHANGED <<now, is_recording, is_connected, visualization_text, accumulated_text, track,
                 prev, lock, last_svg_generation_time, task, processing_task,
                 emitted, cycle, nextSvg, ghost, count>>

\* an audio_chunk message while recording: process_audio_chunk up to
\* transcribe_file; text is what the engine will make of the audio
ReceiveChunk(text) ==
  /\ main.pc = "idle"
  /\ nChunks < MaxChunks
  /\ Len(visualization_text) + Len(text) <= MaxLen
  /\ is_recording /\ is_connected
  /\ main' = [pc |-> "stt", text |-> text, text_to_add |-> <<>>]
  /\ nChunks' = nChunks + 1
  /\ nStops' = 0
  /\ finals' = 0
  /\ sent' = <<>>
  /\ UNCHANGED <<now, flags, visualization_text, accumulated_text, track, prev, lock,
                 last_svg_generation_time, task, gen, processing_task, emitted,
                 cycle, nextSvg, ghost, nStarts>>

\* Discarded with "thank you" in the hallucination list and filtered first
DiscardedThankYou(text) ==
  IsHallucination(text) \/ IsRepeatedWord(text) \/ text = <<"thank", "you">>

\* _transcribe_audio: the chunk is dropped before trigger detection
Discarded(text) ==
  /\ ~(visualization_active /\ IsDeactivationPhrase(text))
  /\ IsHallucination(text) \/ IsRepeatedWord(text)

\* can_deactivate measured from the activation instead
can_deactivate_since_arming == now - armed_at >= deactivation_cooldown

\* time_since_activation >= 6
can_deactivate == now - last_svg_generation_time >= deactivation_cooldown

\* process_trigger_word without the "not self.visualization_active" test
process_trigger_word_rearm(text) ==
  IF visualization_active /\ can_deactivate
     /\ ContainsDeactivate(ReplacePrison(text))
  THEN "deactivate"
  ELSE IF ContainsActivate(ReplacePrison(text))
  THEN "activate"
  ELSE "passthrough"

\* the branch _process_trigger_word takes for the chunk text
process_trigger_word(text) ==
  IF visualization_active /\ can_deactivate
     /\ ContainsDeactivate(ReplacePrison(text))
  THEN "deactivate"
  ELSE IF ~visualization_active /\ ContainsActivate(ReplacePrison(text))
  THEN "activate"
  ELSE "passthrough"

\* Joined that assigns instead of appending
JoinedOverwrite(buffer, text_to_add) == text_to_add

\* visualization_text += " " + text_to_add, stripped
Joined(buffer, text_to_add) == buffer \o text_to_add

\* Accumulated that keeps the chunk only while the session is armed
AccumulatedWhileArmed(transcript, text) ==
  IF visualization_active THEN transcript \o text ELSE transcript

\* accumulated_text += " " + text, stripped: text is the chunk as transcribed
Accumulated(transcript, text) == transcript \o text

\* Discard that still sends the transcription_partial event
DiscardWithPartial ==
  /\ main' = Idle
  /\ sent' = send_message_safe(PartialEvent(visualization_active))
  /\ UNCHANGED <<visualization_active, visualization_text, accumulated_text,
                 track, prev, lock, last_svg_generation_time, emitted, cycle,
                 armed_at, last_dispatch, covered>>

\* _transcribe_audio returns before trigger detection
Discard ==
  /\ main' = Idle
  /\ sent' = <<>>
  /\ UNCHANGED <<visualization_active, visualization_text, accumulated_text, track, prev, lock,
                 last_svg_generation_time, emitted, cycle, armed_at,
                 last_dispatch, covered>>

\* Deactivate without line 413: the buffer keeps its text
DeactivateKeepingText ==
  /\ visualization_active' = FALSE
  /\ main' = [main EXCEPT !.pc = "toggled", !.text_to_add = <<>>]
  /\ sent' = send_message_safe(StatusEvent("visualization_toggled", FALSE))
  /\ UNCHANGED <<visualization_text, accumulated_text, track, prev, lock,
                 last_svg_generation_time, emitted, cycle, armed_at,
                 last_dispatch>>
  /\ covered' = 0

\* Deactivate that sends its status before it clears the flag
DeactivateSendingFirst ==
  /\ visualization_active' = FALSE
  /\ visualization_text' = <<>>
  /\ main' = [main EXCEPT !.pc = "toggled", !.text_to_add = <<>>]
  /\ sent' = send_message_safe(StatusEvent("visualization_toggled",
                                           visualization_active))
  /\ UNCHANGED <<accumulated_text, track, prev, lock,
                 last_svg_generation_time, emitted, cycle, armed_at,
                 last_dispatch>>
  /\ covered' = 0

\* the deactivation branch of _process_trigger_word, up to its status send
Deactivate ==
  /\ visualization_active' = FALSE
  /\ visualization_text' = <<>>
  /\ main' = [main EXCEPT !.pc = "toggled", !.text_to_add = <<>>]
  /\ sent' = send_message_safe(StatusEvent("visualization_toggled", FALSE))
  /\ UNCHANGED <<accumulated_text, track, prev, lock,
                 last_svg_generation_time, emitted, cycle, armed_at,
                 last_dispatch>>
  /\ covered' = 0

\* the activation branch of _process_trigger_word, up to its status send
Activate ==
  /\ visualization_active' = TRUE
  /\ IF last_svg_code # NoSvg
     THEN /\ previous_session_svg_text' = last_svg_text
          /\ previous_session_svg_code' = last_svg_code
          /\ previous_session_svg_context' = last_svg_context
     ELSE UNCHANGED prev
  /\ visualization_text' = <<>>
  /\ last_svg_text' = <<>>
  /\ last_svg_context' = <<>>
  /\ last_svg_code' = NoSvg
  /\ last_text_length' = 0
  /\ last_svg_generation_time' = now
  /\ last_chart_text' = <<>>
  /\ is_first_generation_of_session' = TRUE
  /\ session_visualization_type' = "none"
  /\ cycle' = cycle + 1
  /\ emitted' = Append(emitted, FALSE)
  /\ sent' = send_message_safe(StatusEvent("visualization_toggled", TRUE))
  /\ armed_at' = now
  /\ last_dispatch' = now
  /\ covered' = 0
  /\ main' = [main EXCEPT !.pc = "toggled",
                          !.text_to_add = TrailingText(ReplacePrison(main.text))]
  /\ UNCHANGED accumulated_text

\* no trigger: _process_trigger_word returns the text and _transcribe_audio
\* runs to its end
Passthrough ==
  /\ visualization_text' =
       IF visualization_active
       THEN Joined(visualization_text, ReplacePrison(main.text))
       ELSE visualization_text
  /\ accumulated_text' = Accumulated(accumulated_text, main.text)
  /\ main' = Idle
  /\ sent' = send_message_safe(PartialEvent(visualization_active))
  /\ UNCHANGED <<visualization_active, track, prev, lock,
                 last_svg_generation_time, emitted, cycle, armed_at,
                 last_dispatch, covered>>

\* transcribe_file returned main.text
TranscribeReturn ==
  /\ main.pc = "stt"
  /\ IF main.text = <<>> \/ Discarded(main.text) THEN Discard
     ELSE IF process_trigger_word(main.text) = "deactivate" THEN Deactivate
     ELSE IF process_trigger_word(main.text) = "activate" THEN Activate
     ELSE Passthrough
  /\ UNCHANGED <<now, is_recording, is_connected, task, gen, processing_task,
                 nextSvg, count>>

\* the visualization_toggled status is sent: _process_trigger_word returns
\* and _transcribe_audio appends what it returned
FinishChunk ==
  /\ main.pc = "toggled"
  /\ visualization_text' =
       IF visualization_active /\ main.text_to_add # <<>>
       THEN Joined(visualization_text, main.text_to_add)
       ELSE visualization_text
  /\ accumulated_text' = Accumulated(accumulated_text, main.text)
  /\ main' = Idle
  /\ sent' = send_message_safe(PartialEvent(visualization_active))
  /\ UNCHANGED <<now, flags, track, prev, lock, last_svg_generation_time,
                 task, gen, processing_task, emitted, cycle, nextSvg, ghost,
                 count>>

\* Disconnect that disarms the session as well
DisconnectDisarming ==
  /\ main.pc = "idle"
  /\ is_connected' = FALSE
  /\ is_recording' = FALSE
  /\ visualization_active' = FALSE
  /\ CancelProcessingTask
  /\ main' = IF Pending(processing_task) THEN At("close_await")
             ELSE At("closed")
  /\ sent' = <<>>
  /\ UNCHANGED <<now, visualization_text, accumulated_text, track, prev,
                 lock, last_svg_generation_time, processing_task, emitted,
                 cycle, nextSvg, ghost, count>>

\* receive_text raises WebSocketDisconnect: the finally block of
\* audio_websocket, up to await session.processing_task
Disconnect ==
  /\ main.pc = "idle"
  /\ is_connected' = FALSE
  /\ is_recording' = FALSE
  /\ CancelProcessingTask
  /\ main' = IF Pending(processing_task) THEN At("close_await")
             ELSE At("closed")
  /\ sent' = <<>>
  /\ UNCHANGED <<now, visualization_active, visualization_text, accumulated_text, track, prev,
                 lock, last_svg_generation_time, processing_task, emitted,
                 cycle, nextSvg, ghost, count>>

\* the malformed inbound messages: a payload that is not JSON, JSON that is
\* not an object, an audio_chunk whose data base64 cannot decode
MalformedKinds == {"invalid_json", "not_object", "bad_base64"}

\* a malformed inbound message.  json.JSONDecodeError is answered with an
\* error event and the loop goes on; the AttributeError of message.get and
\* the binascii.Error of b64decode leave the loop through "except Exception"
\* and the finally block runs, as on a disconnect
ReceiveMalformed(kind) ==
  /\ main.pc = "idle"
  /\ is_connected
  /\ kind = "bad_base64" => nChunks < MaxChunks
  /\ nChunks' = IF kind = "bad_base64" THEN nChunks + 1 ELSE nChunks
  /\ nStops' = 0
  /\ finals' = 0
  /\ IF kind = "invalid_json"
     THEN /\ sent' = <<ErrorMessageEvent>>
          /\ UNCHANGED <<is_connected, is_recording, main, task, gen>>
     ELSE /\ is_connected' = FALSE
          /\ is_recording' = FALSE
          /\ CancelProcessingTask
          /\ main' = IF Pending(processing_task) THEN At("close_await")
                     ELSE At("closed")
          /\ sent' = <<>>
  /\ UNCHANGED <<now, visualization_active, visualization_text,
                 accumulated_text, track, prev, lock,
                 last_svg_generation_time, processing_task, emitted, cycle,
                 nextSvg, ghost, nStarts>>

\* await session.processing_task returns in the finally block
CloseResume ==
  /\ main.pc = "close_await"
  /\ task[processing_task].pc = "done"
  /\ main' = At("closed")
  /\ sent' = <<>>
  /\ UNCHANGED <<now, flags, visualization_text, accumulated_text, track, prev, lock,
                 last_svg_generation_time, task, gen, processing_task, emitted,
                 cycle, nextSvg, ghost, count>>

\* ------------------------------------------------------------- system
\* SVGGenerator.process_svg and wrap_svg_for_animation either return the
\* markup to send (TRUE) or raise (FALSE)
process_svg_outcomes == BOOLEAN

\* every step but start_recording and the arrival of an audio chunk
Steps ==
  \/ Tick
  \/ StopRecording
  \/ StopResume
  \/ StopSendReturn
  \/ TranscribeReturn
  \/ FinishChunk
  \/ Disconnect
  \/ \E kind \in MalformedKinds : ReceiveMalformed(kind)
  \/ CloseResume
  \/ \E t \in Tasks : Wake(t)
  \/ \E t \in Tasks : SchedulerSendReturn(t)
  \/ \E t \in Tasks : ObserveCancel(t)
  \/ \E c \in Coroutines : \E is_similar \in BOOLEAN : SimReturn(c, is_similar)
  \/ \E c \in Coroutines : \E processed \in process_svg_outcomes :
       LlmReturn(c, processed)
  \/ \E c \in Coroutines : \E ok \in BOOLEAN : ChartReturn(c, ok)

\* every step but start_recording
Running == (\E text \in Chunks : ReceiveChunk(text)) \/ Steps

Next == StartRecording(MaxStarts) \/ Running

Spec == Init /\ [][Next]_vars

\* the same session with one more start_recording message: a recording can
\* be started while an earlier recording's scheduler is alive
NextRestart == StartRecording(MaxStarts + 1) \/ Running

SpecRestart == Init /\ [][NextRestart]_vars

\* ------------------------------------------------------------- classifier runs
\* the accumulated text of scenario B
ScenarioB ==
  <<"quarterly", "revenue", "chart", "showing", "10", "20", "30">>

WeakWords == <<"chart", "sales">>
Numerals == <<"10", "20", "30", "40">>

\* a text with s primary keywords, w secondary keywords, d data indicator
\* words and n numeric literals
CountedText(s, w, d, n) ==
  (IF s = 1 THEN <<"histogram">> ELSE <<>>) \o SubSeq(WeakWords, 1, w)
    \o (IF d = 1 THEN <<"data">> ELSE <<>>) \o SubSeq(Numerals, 1, n)

\* the texts handed to the classifier
ClassifyTexts ==
  {ScenarioB} \cup
  { CountedText(s, w, d, n) :
      s \in {0, 1}, w \in 0..Len(WeakWords), d \in {0, 1},
      n \in 0..Len(Numerals) }

\* the session after start_recording and one audio chunk transcribed as
\* "prism" followed by text: recording, armed, the buffer is text and the
\* scheduler sleeps
Armed(text) ==
  /\ now = 0
  /\ is_recording = TRUE
  /\ is_connected = TRUE
  /\ visualization_active = TRUE
  /\ visualization_text = text
  /\ accumulated_text = <<"prism">> \o text
  /\ last_svg_text = <<>>
  /\ last_svg_context = <<>>
  /\ last_svg_code = NoSvg
  /\ last_text_length = 0
  /\ last_chart_text = <<>>
  /\ previous_session_svg_text = <<>>
  /\ previous_session_svg_code = NoSvg
  /\ previous_session_svg_context = <<>>
  /\ is_first_generation_of_session = TRUE
  /\ session_visualization_type = "none"
  /\ last_svg_generation_time = 0
  /\ processing_task = 1
  /\ main = Idle
  /\ task = [t \in Tasks |-> IF t = 1 THEN Sleeping ELSE NoTask]
  /\ gen = [c \in Coroutines |-> NoGen]
  /\ sent = <<PartialEvent(TRUE)>>
  /\ emitted = <<FALSE>>
  /\ cycle = 1
  /\ nextSvg = 1
  /\ armed_at = 0
  /\ last_dispatch = 0
  /\ covered = 0
  /\ nChunks = 1
  /\ nStarts = 1
  /\ nStops = 0
  /\ finals = 0

InitClassify == \E text \in ClassifyTexts : Armed(text)

\* the session from there on: the scheduler and stop_recording generate,
\* further speech without keywords arrives
NextClassify ==
  \/ Tick
  \/ \E t \in Tasks : Wake(t)
  \/ \E t \in Tasks : SchedulerSendReturn(t)
  \/ \E t \in Tasks : ObserveCancel(t)
  \/ \E c \in Coroutines : \E processed \in process_svg_outcomes :
       LlmReturn(c, processed)
  \/ \E c \in Coroutines : \E ok \in BOOLEAN : ChartReturn(c, ok)
  \/ ReceiveChunk(<<"a">>)
  \/ TranscribeReturn
  \/ StopRecording
  \/ StopResume
  \/ StopSendReturn

SpecClassify == InitClassify /\ [][NextClassify]_vars

\* ------------------------------------------------------------- fair runs
\* what the speaker says in these runs: the activation and the deactivation
LiveChunks == { <<"prism", "a">>, <<"thank", "you">> }

\* the clock of these runs covers two generation intervals
LiveTime == 2 * svg_generation_interval

\* a recording in which nothing is stopped or disconnected
NextLive ==
  \/ StartRecording(MaxStarts)
  \/ TickTo(LiveTime)
  \/ \E text \in LiveChunks : ReceiveChunk(text)
  \/ TranscribeReturn
  \/ FinishChunk
  \/ \E t \in Tasks : Wake(t)
  \/ \E t \in Tasks : SchedulerSendReturn(t)
  \/ \E c \in Coroutines : \E is_similar \in BOOLEAN : SimReturn(c, is_similar)
  \/ \E c \in Coroutines : \E processed \in process_svg_outcomes :
       LlmReturn(c, processed)

\* the event loop runs every coroutine that is ready, the sleep of a
\* scheduler ends, and the awaited engines and sends return
Fairness ==
  /\ WF_vars(TickTo(LiveTime))
  /\ WF_vars(\E t \in Tasks : Wake(t))
  /\ WF_vars(\E t \in Tasks : SchedulerSendReturn(t))
  /\ WF_vars(\E c \in Coroutines : \E is_similar \in BOOLEAN :
               SimReturn(c, is_similar))
  /\ WF_vars(\E c \in Coroutines : \E processed \in process_svg_outcomes :
               LlmReturn(c, processed))
  /\ WF_vars(TranscribeReturn)
  /\ WF_vars(FinishChunk)

SpecLive == Init /\ [][NextLive]_vars /\ Fairness

\* ------------------------------------------------------------- long restarts
\* what the speaker says in these runs: activations with one and two words
LongChunks == { <<"prism", "a">>, <<"prism", "a", "a">> }

\* a session with two start_recording messages over two generation intervals
NextLong ==
  \/ StartRecording(MaxStarts + 1)
  \/ TickTo(LiveTime)
  \/ \E text \in LongChunks : ReceiveChunk(text)
  \/ TranscribeReturn
  \/ FinishChunk
  \/ StopRecording
  \/ StopResume
  \/ StopSendReturn
  \/ \E t \in Tasks : Wake(t)
  \/ \E t \in Tasks : SchedulerSendReturn(t)
  \/ \E t \in Tasks : ObserveCancel(t)
  \/ \E c \in Coroutines : \E is_similar \in BOOLEAN : SimReturn(c, is_similar)
  \/ \E c \in Coroutines : \E processed \in process_svg_outcomes :
       LlmReturn(c, processed)

SpecLong == Init /\ [][NextLong]_vars

\* ------------------------------------------------------------- longer speech
\* what the speaker says in these runs: the chunks "thanks a" and
\* "a thankyou a" hold a deactivation pattern inside longer speech
SpeechChunks ==
  { <<"a">>, <<"histogram">>, <<"prism", "a">>, <<"thanks", "a">>,
    <<"a", "thankyou", "a">> }

NextSpeech ==
  \/ StartRecording(MaxStarts)
  \/ \E text \in SpeechChunks : ReceiveChunk(text)
  \/ Steps

SpecSpeech == Init /\ [][NextSpeech]_vars

\* ------------------------------------------------------------- properties
\* C1: a generation that was dispatched in an earlier arm cycle and returns
\* in a later one leaves the later cycle's bookkeeping (last_svg_text,
\* last_svg_context, last_svg_code, last_text_length, last_chart_text) as it is
C1_StaleReturnKeepsBookkeeping ==
  [][\A c \in Coroutines :
       (gen[c].pc \in {"llm", "chart", "chart_retry"} /\ gen[c].cyc # cycle
          /\ gen'[c].pc = "sent")
       => track' = track]_vars

\* C2: a chunk holding the deactivation phrase that is processed while armed,
\* less than 6 s after the most recent generation dispatch (or the arming),
\* leaves the session armed
C2_NoDeactivationInCooldown ==
  [][(main.pc = "stt" /\ main'.pc # "stt" /\ visualization_active
        /\ ContainsDeactivate(main.text)
        /\ now - last_dispatch < deactivation_cooldown)
     => visualization_active']_vars

\* C3 as stated: the first artifact sent for an arm cycle is tagged
\* "initial", every later artifact of that cycle "enhanced"
C3_FirstInitialThenEnhanced ==
  [][\A i \in DOMAIN sent' :
       sent'[i].type \in {"svg_generated", "chart_generated"}
       => sent'[i].tag = IF emitted[sent'[i].cyc] THEN "enhanced"
                         ELSE "initial"]_vars

\* C3 amended: a successful image artifact is tagged "enhanced" exactly when
\* its request was given earlier markup to build on, and "initial" or
\* "new_topic" otherwise; a placeholder artifact carries no mode, and no
\* chart artifact is sent
C3_ModeFollowsPreviousMarkup ==
  \A i \in DOMAIN sent :
    /\ sent[i].type # "chart_generated"
    /\ sent[i].type = "svg_generated" =>
         IF sent[i].keys = ErrorSvgKeys THEN sent[i].tag = "none"
         ELSE /\ sent[i].tag \in {"initial", "new_topic", "enhanced"}
              /\ sent[i].tag = "enhanced" <=> sent[i].prev_svg # NoSvg

\* C3 witness: the first artifact of an arm cycle goes out tagged "enhanced"
\* or "new_topic", built on or compared with the previous cycle's image
C3_Witness ==
  \E i \in DOMAIN sent :
    /\ sent[i].type = "svg_generated"
    /\ sent[i].tag \in {"enhanced", "new_topic"}
    /\ sent[i].cyc = 2

\* C4: while chunks are processed the armed buffer changes only by growing
\* while armed or by being emptied when armed toggles, and it is empty right
\* after every activation and every deactivation; outside start_recording
\* nothing else changes it
C4_BufferGrowsOnlyWhileArmed ==
  [][/\ (main.pc = "stt" /\ visualization_active' # visualization_active)
          => visualization_text' = <<>>
     /\ (nStarts' = nStarts /\ visualization_text' # visualization_text)
          => \/ /\ visualization_active' # visualization_active
                /\ visualization_text' = <<>>
             \/ /\ visualization_active /\ visualization_active'
                /\ Len(visualization_text') > Len(visualization_text)
                /\ SubSeq(visualization_text', 1, Len(visualization_text))
                     = visualization_text]_vars

\* C4 witness: a second arm cycle whose buffer has grown again after the
\* first cycle's buffer grew and was emptied
C4_Witness ==
  /\ cycle = 2
  /\ visualization_active
  /\ visualization_text # <<>>
  /\ main.pc = "idle"

\* C5: at most one scheduler task of the session is alive at any moment
C5_OneSchedulerAlive ==
  Cardinality({t \in Tasks : Pending(t)}) <= 1

\* C6 as stated: a deactivate decision taken while armed with a non-blank
\* buffer dispatches a final generation with the accumulated text
C6_FinalGenerationOnDeactivate ==
  [][(main.pc = "stt" /\ main'.pc # "stt" /\ visualization_active
        /\ process_trigger_word(main.text) = "deactivate"
        /\ visualization_text # <<>>)
     => /\ gen'[0].pc # "none"
        /\ gen'[0].current_text = visualization_text]_vars

\* C6 amended: a deactivate decision taken while armed dispatches no
\* generation; in one step armed becomes false and the buffer is cleared, its
\* text dropped, and the generations in flight are left as they are
C6_DeactivateDropsBuffer ==
  [][(main.pc = "stt" /\ main'.pc # "stt" /\ visualization_active
        /\ process_trigger_word(main.text) = "deactivate")
     => /\ ~visualization_active'
        /\ visualization_text' = <<>>
        /\ gen' = gen
        /\ last_dispatch' = last_dispatch
        /\ main'.text_to_add = <<>>]_vars

\* C6 witness: the deactivation has been decided in a cycle whose buffer held
\* text (a generation dispatched with it is still in flight): the session is
\* disarmed, the buffer empty and coroutine 0 has no generation
C6_Witness ==
  /\ main.pc = "toggled"
  /\ ~visualization_active
  /\ visualization_text = <<>>
  /\ gen[0].pc = "none"
  /\ \E t \in Tasks : gen[t].pc = "llm" /\ gen[t].cyc = cycle
                      /\ gen[t].current_text # <<>>

C8_ActivationRearms ==
  [][(main.pc = "stt" /\ main'.pc # "stt" /\ visualization_active
        /\ ~Discarded(main.text)
        /\ ContainsActivate(ReplacePrison(main.text))
        /\ ~ContainsDeactivate(ReplacePrison(main.text)))
     => /\ visualization_active'
        /\ cycle' = cycle + 1
        /\ visualization_text' = <<>>
        /\ is_first_generation_of_session']_vars

\* C8 amended: a chunk with the activation word produces an activation only
\* while disarmed; processed while armed it starts no arm cycle: the whole
\* chunk, "prison" read as "prism", is appended to the buffer and the
\* bookkeeping is left as it is
C8_ActivationOnlyWhenDisarmed ==
  [][(main.pc = "stt" /\ main'.pc # "stt"
        /\ ~Discarded(main.text)
        /\ ContainsActivate(ReplacePrison(main.text))
        /\ ~ContainsDeactivate(ReplacePrison(main.text)))
     => IF visualization_active
        THEN /\ visualization_active'
             /\ cycle' = cycle
             /\ visualization_text'
                  = visualization_text \o ReplacePrison(main.text)
             /\ UNCHANGED <<track, prev, lock, last_svg_generation_time>>
        ELSE /\ visualization_active'
             /\ cycle' = cycle + 1
             /\ visualization_text' = <<>>
             /\ is_first_generation_of_session']_vars

\* C8 witness: the buffer of an armed session holds the activation word of a
\* chunk that was processed while armed, in the first arm cycle
C8_Witness ==
  /\ visualization_active
  /\ cycle = 1
  /\ \E i \in DOMAIN visualization_text : visualization_text[i] = "prism"

\* C9: a generation in flight is left alone by a deactivation; while the
\* session stays connected and recording is not stopped it leaves flight
\* only by sending its artifact
C9_InFlightGenerationIsSent ==
  [][\A c \in Coroutines :
       (gen[c].pc \in {"sim", "llm", "chart", "chart_retry"}
          /\ gen'[c] # gen[c] /\ is_connected' /\ is_recording')
       => \/ /\ gen'[c].pc \in {"sim", "llm", "chart_retry"}
             /\ gen'[c].cyc = gen[c].cyc
             /\ gen'[c].current_text = gen[c].current_text
          \/ /\ gen'[c].pc = "sent"
             /\ Len(sent') = 1
             /\ sent'[1].type = "svg_generated"
             /\ sent'[1].cyc = gen[c].cyc]_vars

\* C9 witness: the artifact of a generation of the current arm cycle has
\* just been sent although the session was disarmed while it was in flight
C9_Witness ==
  /\ ~visualization_active
  /\ is_recording /\ is_connected
  /\ \E t \in Tasks : gen[t].pc = "sent"
  /\ Len(sent) = 1
  /\ sent[1].type = "svg_generated"
  /\ sent[1].cyc = cycle

\* C10 as stated: every svg_generated and chart_generated event carries a
\* session_id
C10_ArtifactsCarrySessionId ==
  \A i \in DOMAIN sent :
    sent[i].type \in {"svg_generated", "chart_generated"}
    => "session_id" \in sent[i].keys

\* C10 amended: no event carries a session_id and no chart_generated event
\* is sent; the data of an svg_generated event is the seven entries of a
\* successful image or the two of a placeholder, whatever the arm cycle
C10_NoSessionIdOnArtifacts ==
  \A i \in DOMAIN sent :
    /\ "session_id" \notin sent[i].keys
    /\ sent[i].type # "chart_generated"
    /\ sent[i].type = "svg_generated"
         => sent[i].keys \in {SvgGeneratedKeys, ErrorSvgKeys}

\* C10 witness: an artifact dispatched in the first arm cycle is sent during
\* the second one
C10_Witness ==
  /\ cycle = 2
  /\ \E i \in DOMAIN sent :
       sent[i].type = "svg_generated" /\ sent[i].cyc = 1

\* C11: once the session is marked disconnected no event is handed to the
\* transport, also not by a tick or a generation that outlives the
\* disconnect; the send is skipped silently and the generation returns
C11_NoSendAfterDisconnect ==
  ~is_connected => sent = <<>>

\* C11 witness: a generation in flight at the disconnect has since returned
\* and reached its send with the session marked disconnected
C11_Witness ==
  /\ ~is_connected
  /\ sent = <<>>
  /\ \E t \in Tasks : gen[t].pc = "sent" /\ task[t].pc = "gen"

\* C12: when stop_recording has returned, and when the teardown after a
\* disconnect has returned, every scheduler task of the session has ended
C12_AllSchedulersEnded ==
  (~is_recording /\ main.pc \in {"idle", "closed"})
  => \A t \in Tasks : ~Pending(t)

\* C13: the stop_recording messages of an uninterrupted run of them make at
\* most one forced final generation in total, counting every call of the
\* generation routine, skipped or not
C13_OneForcedFinalGeneration ==
  finals <= 1

\* C13 witness: a second stop_recording in a row has returned after the
\* first one forced a final generation
C13_Witness ==
  /\ nStops = 2
  /\ finals = 1
  /\ main.pc = "idle"
  /\ last_svg_text # <<>>

C15_TypeLockedForTheCycle ==
  [][/\ session_visualization_type # "none"
        => \/ session_visualization_type' = session_visualization_type
           \/ /\ session_visualization_type' = "none"
              /\ cycle' = cycle + 1
     /\ \A c \in Coroutines :
          (gen[c].pc = "none" /\ gen'[c].pc \in {"sim", "llm", "chart"})
          => /\ session_visualization_type' # "none"
             /\ gen'[c].pc = "chart" <=> session_visualization_type' = "chart"
             /\ session_visualization_type = "none"
                  => (session_visualization_type' = "chart"
                        <=> is_chart_request(visualization_text)[1])]_vars

\* C15 witness: a generation is on the image pathway of an arm cycle locked
\* to images although its text now classifies as a chart request
C15_Witness ==
  \E c \in Coroutines :
    /\ gen[c].pc = "llm"
    /\ gen[c].cyc = cycle
    /\ session_visualization_type = "svg"
    /\ is_chart_request(gen[c].current_text)[1]

\* C16 as stated: the request of the first image generation of an arm cycle
\* is a fresh one, given no markup of an earlier arm cycle
C16_FirstGenerationIsFresh ==
  [][\A c \in Coroutines :
       (/\ gen'[c].pc = "llm"
        /\ \/ gen[c].pc = "sim"
           \/ gen[c].pc \in {"none", "chart_retry"}
              /\ is_first_generation_of_session)
       => /\ gen'[c].prev_svg = NoSvg
          /\ gen'[c].mode \in {"initial", "new_topic"}]_vars

\* C16 amended: the first image generation of an arm cycle is a fresh request
\* built from the text it was dispatched with, except that when an earlier
\* arm cycle left an image the text is first compared with that cycle's
\* text, and if the check finds them similar the request is an enhancement
\* given the earlier cycle's raw markup
C16_FirstGenerationFreshUnlessSimilar ==
  [][\A c \in Coroutines :
       /\ (/\ gen[c].pc \in {"none", "chart_retry"}
           /\ gen'[c].pc \in {"sim", "llm"}
           /\ is_first_generation_of_session)
          => /\ gen'[c].prev_svg = NoSvg
             /\ gen'[c].current_text = IF gen[c].pc = "none"
                                        THEN visualization_text
                                        ELSE gen[c].current_text
             /\ IF previous_session_svg_code = NoSvg
                THEN gen'[c].pc = "llm" /\ gen'[c].mode = "initial"
                ELSE gen'[c].pc = "sim"
       /\ (gen[c].pc = "sim" /\ gen'[c].pc # "sim")
          => \/ gen'[c].pc = "none"
             \/ /\ gen'[c].pc = "llm"
                /\ gen'[c].current_text = gen[c].current_text
                /\ \/ /\ gen'[c].mode = "new_topic"
                      /\ gen'[c].prev_svg = NoSvg
                   \/ /\ gen'[c].mode = "enhanced"
                      /\ gen'[c].prev_svg = previous_session_svg_code
                      /\ gen'[c].prev_svg # NoSvg]_vars

\* C16 witness: the first image generation of a later arm cycle is in flight
\* as an enhancement of the markup the earlier arm cycle left
C16_Witness ==
  \E c \in Coroutines :
    /\ gen[c].pc = "llm"
    /\ gen[c].cyc = cycle
    /\ cycle >= 2
    /\ gen[c].mode = "enhanced"
    /\ last_svg_code = NoSvg
    /\ gen[c].prev_svg = previous_session_svg_code

C18_GenerationNeverThrows ==
  [][\A c \in Coroutines :
       /\ (gen[c].pc \in {"sim", "llm", "chart", "chart_retry"}
           /\ gen'[c] # gen[c])
          => \/ gen'[c].pc \in {"sim", "llm", "chart_retry"} /\ sent' = <<>>
             \/ gen'[c] = NoGen /\ c # 0 /\ task'[c].pc = "cancelled"
             \/ /\ gen'[c].pc = "sent"
                /\ Len(sent') = IF is_connected THEN 1 ELSE 0
                /\ \A i \in DOMAIN sent' :
                     /\ sent'[i].type = "svg_generated"
                     /\ sent'[i].keys \in {SvgGeneratedKeys, ErrorSvgKeys}
       /\ (gen[c].pc = "sent" /\ gen'[c] # gen[c])
          => /\ gen'[c] = NoGen
             /\ IF c = 0
                THEN /\ main'.pc = "idle"
                     /\ sent' = send_message_safe(
                                  StatusEvent("recording_stopped", FALSE))
                ELSE task'[c].pc \in {"sleep", "done", "cancelled"}]_vars

\* C18 witness: a scheduler's generation failed, the placeholder artifact
\* has been handed to the transport and the scheduler is about to resume
C18_Witness ==
  \E t \in Tasks :
    /\ gen[t].pc = "sent"
    /\ task[t].pc = "gen"
    /\ Len(sent) = 1
    /\ sent[1].type = "svg_generated"
    /\ sent[1].keys = ErrorSvgKeys
    /\ session_visualization_type = "svg"

\* C19: a failed chart execution is retried once, with the fallback code;
\* the generation falls back to the image pathway, for the same text, only
\* when the retry has failed too, and it hands over exactly one artifact
\* event, in the step that ends it
C19_ChartRetriedOnceThenImage ==
  [][/\ \A c \in Coroutines :
          /\ (gen[c].pc = "chart" /\ gen'[c] # gen[c])
             => \/ gen'[c] = [gen[c] EXCEPT !.pc = "chart_retry"]
                   /\ sent' = <<>>
                \/ gen'[c].pc = "sent"
                \/ gen'[c] = NoGen
          /\ (gen[c].pc = "chart_retry" /\ gen'[c] # gen[c])
             => \/ /\ gen'[c].pc \in {"sim", "llm"}
                   /\ gen'[c].current_text = gen[c].current_text
                   /\ gen'[c].cyc = gen[c].cyc
                   /\ sent' = <<>>
                \/ gen'[c].pc = "sent"
                \/ gen'[c] = NoGen
          /\ (gen[c].pc \in {"sim", "llm", "chart", "chart_retry"}
              /\ gen'[c].pc = "sent")
             => Len(sent') = IF is_connected THEN 1 ELSE 0
     /\ \A i \in DOMAIN sent' :
          sent'[i].type \in {"svg_generated", "chart_generated"}
          => /\ Len(sent') = 1
             /\ \E c \in Coroutines :
                  /\ gen[c].pc \in {"llm", "chart", "chart_retry"}
                  /\ gen'[c].pc = "sent"]_vars

\* C19 witness: a generation of an arm cycle locked to charts has fallen
\* back to the image pathway and handed over its one artifact
C19_Witness ==
  \E c \in Coroutines :
    /\ session_visualization_type = "chart"
    /\ gen[c].pc = "sent"
    /\ Len(sent) = 1
    /\ sent[1].type = "svg_generated"
    /\ sent[1].keys = SvgGeneratedKeys
    /\ sent[1].cyc = cycle

\* C20: a chart generation whose engine returned an image hands exactly one
\* chart_generated event to a connected peer and no svg_generated event
C20_ChartGeneratedEvent ==
  [][\A c \in Coroutines :
       (/\ gen[c].pc \in {"chart", "chart_retry"}
        /\ gen'[c].pc = "sent"
        /\ is_connected)
       => /\ Len(sent') = 1
          /\ sent'[1].type = "chart_generated"]_vars

\* C21 as stated: every generation attempt, the scheduler's or the one
\* stop_recording forces, sets last_svg_generation_time to the current time
\* when it returns and marks that a generation was made
C21_EveryAttemptStampsNow ==
  [][/\ \A c \in Coroutines :
          (/\ gen[c].pc = "sent" /\ gen'[c] = NoGen
           /\ c # 0 => task'[c].pc # "cancelled")
          => last_svg_generation_time' = now
     /\ \A c \in Coroutines :
          (gen[c].pc \in {"llm", "chart", "chart_retry"}
           /\ gen'[c].pc = "sent")
          => last_svg_text' # <<>>]_vars

\* C21 amended: when a generation attempt of the scheduler returns,
\* last_svg_generation_time is set to the time of the poll tick that made the
\* attempt, not to the time of the return; an attempt the routine skips
\* stamps the tick too; the attempt forced by stop_recording leaves
\* last_svg_generation_time alone.  An attempt whose content engine returned
\* records its text as the last text generated for, artifact or placeholder.
C21_SchedulerStampsTickTime ==
  [][/\ \A t \in Tasks :
          /\ (/\ gen[t].pc = "sent" /\ gen'[t] = NoGen
              /\ task'[t].pc # "cancelled")
             => /\ last_svg_generation_time' = task[t].current_time
                /\ task[t].current_time <= now
          /\ (task[t].pc = "sleep" /\ task'[t].pc \in {"sleep", "done"}
              /\ task'[t] # task[t] /\ ~task'[t].slept /\ task[t].slept)
             => last_svg_generation_time' =
                  IF Due THEN now ELSE last_svg_generation_time
     /\ (gen[0].pc = "sent" /\ gen'[0] = NoGen)
        => UNCHANGED last_svg_generation_time
     /\ \A c \in Coroutines :
          (gen[c].pc \in {"llm", "chart", "chart_retry"}
           /\ gen'[c].pc = "sent")
          => /\ last_svg_text' = gen[c].current_text
             /\ last_svg_text' # <<>>
             /\ last_text_length' = Len(gen[c].current_text)]_vars

\* C21 witness: a generation of the scheduler has returned later than the
\* tick that dispatched it and the tick's time is the stamp
C21_Witness ==
  \E t \in Tasks :
    /\ task[t].pc = "sleep"
    /\ gen[t] = NoGen
    /\ last_svg_text # <<>>
    /\ last_svg_generation_time = last_dispatch
    /\ last_dispatch > armed_at
    /\ last_svg_generation_time < now
    /\ visualization_active

\* C22: a scheduler calls the generation routine on a poll tick only while
\* recording and armed, with a non-blank buffer and at least the generation
\* interval after last_svg_generation_time; no scheduler dispatches within
\* an interval of the dispatch of a generation still in flight
C22_SchedulerDispatchGuard ==
  [][\A t \in Tasks :
       (task[t].pc = "sleep" /\ task'[t].pc = "gen")
       => /\ is_recording
          /\ visualization_active
          /\ visualization_text # <<>>
          /\ now - last_svg_generation_time >= svg_generation_interval
          /\ \A u \in Tasks \ {t} :
               task[u].pc = "gen"
               => now - task[u].current_time >= svg_generation_interval]_vars

\* C24: every malformed inbound message is answered with an error event and
\* leaves the connection open and the session as it was
C24_MalformedAnsweredWithError ==
  [][(/\ main.pc = "idle"
      /\ \/ sent' = <<ErrorMessageEvent>>
         \/ /\ main'.pc \in {"close_await", "closed"}
            /\ <<nChunks, nStops, finals>>' # <<nChunks, nStops, finals>>)
     => /\ sent' = <<ErrorMessageEvent>>
        /\ is_connected'
        /\ main' = main
        /\ UNCHANGED <<is_recording, visualization_active,
                       visualization_text, accumulated_text, task, gen>>]_vars

\* C25 as stated: visualization_active changes only by a trigger decision on
\* a transcribed chunk
C25_ArmedOnlyByTrigger ==
  [][visualization_active' # visualization_active
     => main.pc = "stt" /\ main'.pc = "toggled"]_vars

\* C25 amended: visualization_active becomes true only by an activation
\* decision on a transcribed chunk; it becomes false by a deactivation
\* decision, by start_recording, and by stop_recording after its final
\* generation; a disconnect, a scheduler tick and a generation leave it alone
C25_ArmedByTriggerStartOrStop ==
  [][/\ (~visualization_active /\ visualization_active')
        => /\ main.pc = "stt" /\ main'.pc = "toggled"
           /\ process_trigger_word(main.text) = "activate"
     /\ (visualization_active /\ ~visualization_active')
        => \/ /\ main.pc = "stt" /\ main'.pc = "toggled"
              /\ process_trigger_word(main.text) = "deactivate"
           \/ /\ main.pc = "idle" /\ nStarts' = nStarts + 1
              /\ is_recording'
           \/ /\ main.pc \in {"idle", "stop_await", "gen"}
              /\ main'.pc = "idle"
              /\ ~is_recording'
              /\ sent' = send_message_safe(
                           StatusEvent("recording_stopped", FALSE))]_vars

\* C25 witness: stop_recording has disarmed a session that was armed when
\* the message came
C25_Witness ==
  /\ main.pc = "idle"
  /\ nStops = 1
  /\ finals = 1
  /\ ~visualization_active
  /\ ~is_recording
  /\ is_connected

\* C26: start_recording resets the session whatever its state: recording,
\* disarmed, transcript and buffer empty, no markup or text of an earlier
\* recording or arm cycle left for later generations, a scheduler running
\* and the recording_started status sent
C26_StartResetsEverything ==
  [][(main.pc = "idle" /\ nStarts' = nStarts + 1)
     => /\ is_recording'
        /\ ~visualization_active'
        /\ accumulated_text' = <<>>
        /\ visualization_text' = <<>>
        /\ last_svg_text' = <<>> /\ last_svg_code' = NoSvg
        /\ previous_session_svg_code' = NoSvg
        /\ previous_session_svg_text' = <<>>
        /\ processing_task' # 0
        /\ task'[processing_task'].pc = "sleep"
        /\ sent' = <<StatusEvent("recording_started", FALSE)>>]_vars

\* C27: an activation leaves the buffer equal to the text that follows the
\* trigger token in the chunk
C27_BufferIsTextAfterTrigger ==
  [][(main.pc = "toggled" /\ visualization_active /\ main'.pc = "idle")
     => LET text == ReplacePrison(main.text)
            hits == {i \in DOMAIN text : ContainsActivate(<<text[i]>>)}
            first == CHOOSE i \in hits : \A j \in hits : i <= j
        IN visualization_text' = SubSeq(text, first + 1, Len(text))]_vars

\* C28: a chunk that is a hallucination phrase or one word repeated more
\* than twice is dropped: armed flag, buffer and transcript stay as they are
\* and no event is sent for it
C28_HallucinationDiscarded ==
  [][(/\ main.pc = "stt" /\ main' # main
      /\ IsHallucination(main.text) \/ IsRepeatedWord(main.text))
     => /\ main'.pc = "idle"
        /\ sent' = <<>>
        /\ UNCHANGED <<visualization_active, visualization_text,
                       accumulated_text>>]_vars

\* C28 witness: an armed session has taken two chunks and kept only the
\* activating one
C28_Witness ==
  /\ main.pc = "idle"
  /\ is_connected
  /\ is_recording
  /\ nChunks = 2
  /\ visualization_active
  /\ accumulated_text = <<"prism", "a">>
  /\ visualization_text = <<"a">>

\* C29: while armed and past the cooldown a chunk that is exactly a
\* deactivation phrase is not filtered as a hallucination: it deactivates
C29_DeactivationBeforeFilter ==
  [][(/\ main.pc = "stt" /\ main' # main
      /\ visualization_active
      /\ can_deactivate
      /\ IsDeactivationPhrase(main.text))
     => /\ main'.pc = "toggled"
        /\ ~visualization_active'
        /\ visualization_text' = <<>>
        /\ sent' = <<StatusEvent("visualization_toggled", FALSE)>>]_vars

\* C29 witness: the chunk "thank you" has just deactivated the session
C29_Witness ==
  /\ main.pc = "toggled"
  /\ main.text = <<"thank", "you">>
  /\ ~visualization_active
  /\ sent = <<StatusEvent("visualization_toggled", FALSE)>>

\* C30: every chunk that is transcribed and not dropped is appended as
\* transcribed to accumulated_text, armed or not, whichever way trigger
\* detection went; accumulated_text changes in no other way but the reset of
\* start_recording
C30_TranscriptAppendsOriginal ==
  [][/\ (\/ /\ main.pc = "stt" /\ main'.pc = "idle"
            /\ main.text # <<>> /\ ~Discarded(main.text)
         \/ main.pc = "toggled" /\ main'.pc = "idle")
        => accumulated_text' = accumulated_text \o main.text
     /\ accumulated_text' # accumulated_text
        => \/ /\ main.pc \in {"stt", "toggled"} /\ main'.pc = "idle"
              /\ accumulated_text' = accumulated_text \o main.text
           \/ /\ main.pc = "idle" /\ nStarts' = nStarts + 1
              /\ accumulated_text' = <<>>]_vars

\* C30 witness: the transcript holds a passed-through chunk, the activating
\* chunk with its trigger word and the deactivating chunk
C30_Witness ==
  /\ main.pc = "idle"
  /\ accumulated_text = <<"a", "prism", "a", "thank", "you">>
  /\ ~visualization_active
  /\ is_recording

\* C31: the offset of the already-processed prefix of the armed buffer,
\* last_text_length, lies between 0 and the length of visualization_text in
\* every reachable state, and never decreases within an arm cycle
C31_CursorWithinBuffer ==
  [][/\ 0 <= last_text_length'
     /\ last_text_length' <= Len(visualization_text')
     /\ (visualization_active /\ visualization_active' /\ cycle' = cycle)
          => last_text_length' >= last_text_length]_vars

\* the session is in the arm cycle that began with the text of scenario B
InScenarioB ==
  /\ visualization_active
  /\ cycle = 1
  /\ Len(visualization_text) >= Len(ScenarioB)
  /\ SubSeq(visualization_text, 1, Len(ScenarioB)) = ScenarioB

\* C32: for an armed session whose accumulated text is "quarterly revenue
\* chart showing 10 20 30" the classifier returns isChart = true with the
\* confidence of the high tier (0.95), and every generation dispatched in
\* the rest of the arm cycle is a chart generation
C32_ScenarioBHighConfidenceChart ==
  [][\A c \in Coroutines :
       (InScenarioB /\ gen[c].pc = "none" /\ gen'[c].pc # "none")
         => /\ is_chart_request(ScenarioB) = <<TRUE, 95>>
            /\ gen'[c].pc = "chart"
            /\ session_visualization_type' = "chart"]_vars

\* C32, amended: for that text the classifier returns isChart = true with
\* the confidence of the multiple-keywords tier (0.75), and every generation
\* dispatched in the rest of the arm cycle is a chart generation
C32_ScenarioBMediumConfidenceChart ==
  [][\A c \in Coroutines :
       (InScenarioB /\ gen[c].pc = "none" /\ gen'[c].pc # "none")
         => /\ is_chart_request(ScenarioB) = <<TRUE, 75>>
            /\ gen'[c].pc = "chart"
            /\ session_visualization_type' = "chart"]_vars

\* a second generation of the scenario's arm cycle, for the grown buffer, is
\* dispatched as a chart after the first one made a chart of the scenario text
C32_Witness ==
  /\ InScenarioB
  /\ last_chart_text = ScenarioB
  /\ \E c \in Coroutines :
       gen[c].pc = "chart" /\ gen[c].current_text = ScenarioB \o <<"a">>

\* C33: is_chart_request is an ordered decision table over the numbers of
\* primary keywords, secondary keywords, data indicator words and numeric
\* literals of the text: the first matching tier decides, in the order
\* primary keyword (0.95), secondary keyword with data indicator (0.85),
\* several secondary keywords (0.75), numeric literals (0.70 with a
\* secondary keyword, 0.65 without); the confidence falls from tier to tier;
\* is_chart holds exactly when a tier matches and the confidence is 0
\* exactly when it does not; the type locked for the cycle is the one decided
C33_OrderedDecisionTable ==
  LET text == visualization_text
      r == is_chart_request(text)
      strong == Matches(CHART_KEYWORDS_PRIMARY, text)
      weak == Matches(CHART_KEYWORDS_SECONDARY, text)
      data == Matches(DATA_INDICATOR_WORDS, text)
      nums == NumberCount(text)
      tier1 == strong >= 1
      tier2 == weak >= 1 /\ data >= 1
      tier3 == weak >= 2
      tier4 == (nums >= 2 /\ weak >= 1) \/ nums >= 4
  IN /\ tier1 => r = <<TRUE, 95>>
     /\ (~tier1 /\ tier2) => r = <<TRUE, 85>>
     /\ (~tier1 /\ ~tier2 /\ tier3) => r = <<TRUE, 75>>
     /\ (~tier1 /\ ~tier2 /\ ~tier3 /\ tier4)
          => r[1] /\ r[2] > 0 /\ r[2] < 75
                  /\ r[2] = (IF weak >= 1 THEN 70 ELSE 65)
     /\ r[1] <=> (tier1 \/ tier2 \/ tier3 \/ tier4)
     /\ r[1] <=> r[2] > 0
     /\ ~r[1] <=> r[2] = 0
     /\ session_visualization_type # "none"
          => (session_visualization_type = "chart" <=> r[1])

\* the classifier decided "chart" for a text that only the numerics tier
\* matches, after the higher tiers were tried
C33_Witness ==
  /\ session_visualization_type = "chart"
  /\ Matches(CHART_KEYWORDS_PRIMARY, visualization_text) = 0
  /\ Matches(CHART_KEYWORDS_SECONDARY, visualization_text) = 1
  /\ Matches(DATA_INDICATOR_WORDS, visualization_text) = 0
  /\ NumberCount(visualization_text) >= 2
  /\ is_chart_request(visualization_text) = <<TRUE, 70>>

\* the generation call of coroutine c awaits a content engine
AwaitsEngine(c) == gen[c].pc \in {"sim", "llm", "chart", "chart_retry"}

\* C34: at most one generation is in flight per session: no generation,
\* scheduled or forced by stop_recording, is dispatched while an earlier
\* generation of the session still awaits an external call
C34_OneGenerationInFlight ==
  [][\A c \in Coroutines :
       (gen[c].pc = "none" /\ gen'[c].pc # "none")
         => \A d \in Coroutines \ {c} : ~AwaitsEngine(d)]_vars

\* C35: last_svg_generation_time never decreases during the lifetime of a
\* session
C35_LastGenerationTimeMonotonic ==
  [][last_svg_generation_time' >= last_svg_generation_time]_vars

\* the session is recording, connected and armed
Stays == is_recording /\ is_connected /\ visualization_active

\* the armed buffer holds text that no generation of the current arm cycle
\* has been given, none is in flight, and the next due poll tick lies within
\* the clock
UncoveredText ==
  /\ Stays
  /\ Len(visualization_text) > covered
  /\ \A c \in Coroutines : gen[c].pc = "none"
  /\ now < LiveTime
  /\ last_svg_generation_time + svg_generation_interval <= LiveTime

\* a generation of the current arm cycle is dispatched for the whole buffer
DispatchedForBuffer ==
  \E c \in Coroutines :
    /\ gen[c].pc # "none"
    /\ gen[c].cyc = cycle
    /\ gen[c].current_text = visualization_text

\* C36: with a fair scheduler and external calls that return, whenever the
\* session stays recording, connected and armed with buffer text that no
\* generation of the current arm cycle has covered, a generation covering
\* that text is eventually dispatched
C36_UncoveredTextIsGenerated ==
  UncoveredText ~> (DispatchedForBuffer \/ ~Stays)

\* coroutine c calls the generation routine in this step: a poll tick that
\* finds the session due, or stop_recording with an armed session and text
Attempt(c) ==
  IF c = 0
  THEN finals' = finals + 1
  ELSE /\ task[c].pc = "sleep" /\ task[c].slept /\ Due
       /\ task'[c] # task[c] /\ task'[c].pc # "cancelled"

\* C37: a generation attempt of a connected session calls no content engine
\* and emits no artifact when the armed buffer is the text the last
\* completed generation of the current arm cycle was given, and calls one
\* whenever the buffer holds text added to it
C37_CallOnlyForNewText ==
  [][\A c \in Coroutines :
       (Attempt(c) /\ is_connected /\ covered > 0)
         => /\ Len(visualization_text) = covered
                 => /\ gen'[c].pc = "none"
                    /\ \A i \in DOMAIN sent' : sent'[i].type # "svg_generated"
            /\ Len(visualization_text) > covered
                 => AwaitsEngine(c)']_vars

\* transcribe_file returned, for an armed session, a chunk that _transcribe_audio
\* does not drop and that holds a deactivation pattern without being one
LongerSpeech ==
  /\ main.pc = "stt"
  /\ main'.pc # "stt"
  /\ visualization_active
  /\ main.text # <<>>
  /\ ~Discarded(main.text)
  /\ ContainsDeactivate(ReplacePrison(main.text))
  /\ ~IsDeactivationPhrase(main.text)

\* C38: a chunk that holds a deactivation pattern inside longer speech, and is
\* not itself a deactivation phrase, never deactivates the session: the session
\* stays armed and the text of the chunk is appended to the armed buffer
C38_LongerSpeechNeverDeactivates ==
  [][LongerSpeech
       => /\ visualization_active'
          /\ visualization_text'
               = Joined(visualization_text, ReplacePrison(main.text))]_vars

\* the visualization_toggled status events among the messages of a step
Toggled(msgs) ==
  {i \in DOMAIN msgs :
     msgs[i].type = "status" /\ msgs[i].tag = "visualization_toggled"}

\* C39: when the chunk of a connected session changes the armed flag, exactly
\* one visualization_toggled status with the new value is sent, nothing changes
\* the flag or sends another such status until the transcription_partial of
\* the chunk, and that event reports the same value; a chunk that leaves the
\* flag alone sends no visualization_toggled status
C39_ToggleAnnouncedOnce ==
  [][/\ (main.pc = "stt" /\ main'.pc # "stt")
          => IF visualization_active' # visualization_active
             THEN /\ sent' = <<StatusEvent("visualization_toggled",
                                           visualization_active')>>
                  /\ main'.pc = "toggled"
             ELSE /\ Toggled(sent') = {}
                  /\ main'.pc = "idle"
                  /\ sent' \in {<<>>, <<PartialEvent(visualization_active)>>}
     /\ (main.pc = "toggled" /\ main'.pc = "toggled")
          => /\ visualization_active' = visualization_active
             /\ Toggled(sent') = {}
     /\ (main.pc = "toggled" /\ main'.pc # "toggled")
          => /\ visualization_active' = visualization_active
             /\ main'.pc = "idle"
             /\ sent' = <<PartialEvent(visualization_active)>>
     /\ (main.pc # "stt" /\ main.pc # "toggled" /\ main'.pc # "toggled")
          => Toggled(sent') = {}]_vars

\* a chunk past the cooldown has just disarmed the session and the status
\* announcing it is out; the transcription_partial of the chunk is still to come
C39_Witness ==
  /\ main.pc = "toggled"
  /\ main.text = <<"thank", "you">>
  /\ ~visualization_active
  /\ cycle = 1
  /\ sent = <<StatusEvent("visualization_toggled", FALSE)>>

\* C40: whenever the message loop waits for the next message, an armed session
\* is recording and connected
C40_ArmedOnlyWhileRecording ==
  (main.pc = "idle" /\ visualization_active) => (is_recording /\ is_connected)

\* the message loop waits for the next message of an armed session whose
\* second arm cycle has text in its buffer
C40_Witness ==
  /\ main.pc = "idle"
  /\ visualization_active
  /\ visualization_text # <<>>
  /\ is_recording /\ is_connected
  /\ cycle = 2
====
